---- MODULE Spec2Model ----
(***************************************************************************)
(* Model of pagination_sorting.pagination.Paginator: construction, page    *)
(* slicing, page-range computation, page info, the error-swallowing        *)
(* accessor and paginate with its in-place sort.                           *)
(*                                                                         *)
(* Encodings: a Python list is a sequence; None is the record NoneVal and  *)
(* a present optional value x is Some(x); the marker '...' of a page range *)
(* is Ellipsis (0, never a page number, pages start at 1); an exception is *)
(* the field "raised" of a call's outcome; a URL string                    *)
(* f"{base_url}?{query_param}={page_number}" is the record of its parts.   *)
(***************************************************************************)
EXTENDS Integers, Sequences, FiniteSets

VARIABLES st, items, items_per_page, orphans, allow_empty_first_page,
          total_items, total_pages, call, ret

vars == <<st, items, items_per_page, orphans, allow_empty_first_page,
          total_items, total_pages, call, ret>>

fields == <<items, items_per_page, orphans, allow_empty_first_page,
            total_items, total_pages>>

(* ---------------- bounds of the explored inputs ---------------- *)
MaxLen == 2
MaxItem == 2
MaxPerPage == 2
MaxOrphans == 1
MaxPage == 5
MaxRangePage == 8
MaxNumPages == 5
MaxEdge == 2
MaxRangeItems == 20

(* ---------------- program constants ---------------- *)
TestLen == 10
TestPerPage == 3
Ellipsis == 0
DefaultNumPages == 5
DefaultEdge == 2

Min(a, b) == IF a < b THEN a ELSE b
Max(a, b) == IF a > b THEN a ELSE b

Ceil(a, b) == -((-a) \div b)

NoneVal == [none |-> TRUE, val |-> <<>>]
Some(x) == [none |-> FALSE, val |-> x]

Raise(e) == [raised |-> e, val |-> <<>>]
Return(v) == [raised |-> "none", val |-> v]

PyRange(a, b) == IF b <= a THEN <<>> ELSE [i \in 1..(b - a) |-> a + i - 1]

PySlice(s, a, b) == SubSeq(s, a + 1, Min(b, Len(s)))

RECURSIVE SeqsUpTo(_, _)
SeqsUpTo(S, n) ==
  IF n = 0 THEN {<<>>}
  ELSE LET R == SeqsUpTo(S, n - 1)
       IN R \cup {Append(s, x) : s \in {r \in R : Len(r) = n - 1}, x \in S}

(* the list of test_sort_items: repeated values and ties under any key *)
SortTestItems == <<3, 1, 4, 1, 5, 9, 2, 6, 5, 3, 5>>

Collections ==
  SeqsUpTo(1..MaxItem, MaxLen) \cup {PyRange(1, TestLen + 1), SortTestItems}
RangeCollections == {PyRange(1, n + 1) : n \in 0..MaxRangeItems}
PerPageValues == (0..MaxPerPage) \cup {TestPerPage}
OrphansValues == (-1)..MaxOrphans
PageValues == 0..MaxPage
SortKeys == {"none", "neg", "parity"}

NoCall == [op |-> "none", page_number |-> 0, num_pages |-> 0, left_edge |-> 0,
           right_edge |-> 0, sort_key |-> "none", reverse |-> FALSE]

Init ==
  /\ st = "new"
  /\ items = <<>>
  /\ items_per_page = 0
  /\ orphans = 0
  /\ allow_empty_first_page = TRUE
  /\ total_items = 0
  /\ total_pages = 0
  /\ call = NoCall
  /\ ret = Return(<<>>)

(* Paginator.__init__ *)
Construct(its, ipp, orph, allow) ==
  /\ st = "new"
  /\ UNCHANGED <<call, ret>>
  /\ IF ipp <= 0 \/ orph < 0
     THEN /\ st' = "ValueError"
          /\ UNCHANGED fields
     ELSE /\ items' = its
          /\ items_per_page' = ipp
          /\ orphans' = orph
          /\ allow_empty_first_page' = allow
          /\ total_items' = Len(its)
          /\ total_pages' = Ceil(Len(its) - orph, ipp)
          /\ st' = IF ~allow /\ Len(its) = 0 THEN "InvalidPageError" ELSE "ok"

(* get_page taking page numbers as zero-based offsets *)
GetPage_ZeroBased(page_number) ==
  IF page_number < 1 THEN Raise("InvalidPageError")
  ELSE IF page_number > total_pages
       THEN IF page_number = 1 /\ allow_empty_first_page
            THEN Return(<<>>)
            ELSE Raise("InvalidPageError")
       ELSE LET start_index == page_number * items_per_page
                end_index == Min(start_index + items_per_page, total_items)
            IN Return(PySlice(items, start_index, end_index))

(* get_page answering every page past the end with an empty page *)
GetPage_AnyEmpty(page_number) ==
  IF page_number < 1 THEN Raise("InvalidPageError")
  ELSE IF page_number > total_pages
       THEN IF allow_empty_first_page
            THEN Return(<<>>)
            ELSE Raise("InvalidPageError")
       ELSE LET start_index == (page_number - 1) * items_per_page
                end_index == Min(start_index + items_per_page, total_items)
            IN Return(PySlice(items, start_index, end_index))

(* Paginator.get_page *)
GetPage(page_number) ==
  IF page_number < 1 THEN Raise("InvalidPageError")
  ELSE IF page_number > total_pages
       THEN IF page_number = 1 /\ allow_empty_first_page
            THEN Return(<<>>)
            ELSE Raise("InvalidPageError")
       ELSE LET start_index == (page_number - 1) * items_per_page
                end_index == Min(start_index + items_per_page, total_items)
            IN Return(PySlice(items, start_index, end_index))

GetPageOp(p) ==
  /\ st = "ok"
  /\ call' = [NoCall EXCEPT !.op = "get_page", !.page_number = p]
  /\ ret' = GetPage(p)
  /\ UNCHANGED <<st, fields>>

(* Paginator.has_previous *)
HasPrevious(page_number) == page_number > 1

(* Paginator.has_next *)
HasNext(page_number) == page_number < total_pages

(* get_page_range with the right window's upper end excluded *)
GetPageRange_ShortWindow(page_number, num_pages, left_edge, right_edge) ==
  IF page_number < 1 \/ page_number > total_pages
  THEN Raise("InvalidPageError")
  ELSE LET left_range == Max(1, page_number - left_edge)
           right_range == Min(page_number + right_edge, total_pages)
           left == IF left_range > 1
                   THEN <<1, Ellipsis>> \o
                        PyRange(Max(1, page_number - (num_pages \div 2)), page_number)
                   ELSE PyRange(1, page_number)
           right == IF right_range < total_pages
                    THEN PyRange(page_number,
                                 Min(page_number + (num_pages \div 2), total_pages))
                         \o <<Ellipsis, total_pages>>
                    ELSE PyRange(page_number, total_pages + 1)
       IN Return(left \o right)

(* Paginator.get_page_range *)
GetPageRange(page_number, num_pages, left_edge, right_edge) ==
  IF page_number < 1 \/ page_number > total_pages
  THEN Raise("InvalidPageError")
  ELSE LET left_range == Max(1, page_number - left_edge)
           right_range == Min(page_number + right_edge, total_pages)
           left == IF left_range > 1
                   THEN <<1, Ellipsis>> \o
                        PyRange(Max(1, page_number - (num_pages \div 2)), page_number)
                   ELSE PyRange(1, page_number)
           right == IF right_range < total_pages
                    THEN PyRange(page_number,
                                 Min(page_number + (num_pages \div 2), total_pages) + 1)
                         \o <<Ellipsis, total_pages>>
                    ELSE PyRange(page_number, total_pages + 1)
       IN Return(left \o right)

GetPageRangeOp(p, np, le, re) ==
  /\ st = "ok"
  /\ call' = [NoCall EXCEPT !.op = "get_page_range", !.page_number = p,
                            !.num_pages = np, !.left_edge = le, !.right_edge = re]
  /\ ret' = GetPageRange(p, np, le, re)
  /\ UNCHANGED <<st, fields>>

(* Paginator.get_page_url *)
GetPageUrl(page_number, base_url, query_param) ==
  IF page_number < 1 \/ page_number > total_pages
  THEN Raise("InvalidPageError")
  ELSE Return([base_url |-> base_url, query_param |-> query_param,
               page_number |-> page_number])

(* Paginator.get_page_info *)
GetPageInfo(page_number) ==
  LET got == GetPage(page_number)
      prev == IF HasPrevious(page_number)
              THEN GetPageUrl(page_number - 1, "", "page") ELSE Return(NoneVal)
      next == IF HasNext(page_number)
              THEN GetPageUrl(page_number + 1, "", "page") ELSE Return(NoneVal)
  IN IF got.raised # "none" THEN Raise(got.raised)
     ELSE IF prev.raised # "none" THEN Raise(prev.raised)
     ELSE IF next.raised # "none" THEN Raise(next.raised)
     ELSE Return([current_page |-> page_number,
                  has_previous |-> HasPrevious(page_number),
                  has_next |-> HasNext(page_number),
                  total_pages |-> total_pages,
                  total_items |-> total_items,
                  items_per_page |-> items_per_page,
                  items |-> got.val,
                  start_index |-> (page_number - 1) * items_per_page + 1,
                  end_index |-> Min(page_number * items_per_page, total_items),
                  previous_page_url |-> prev.val,
                  next_page_url |-> next.val])

GetPageInfoOp(p) ==
  /\ st = "ok"
  /\ call' = [NoCall EXCEPT !.op = "get_page_info", !.page_number = p]
  /\ ret' = GetPageInfo(p)
  /\ UNCHANGED <<st, fields>>

(* get_paginated_items answering an invalid page with an empty list *)
GetPaginatedItems_EmptyList(page_number) ==
  LET got == GetPage(page_number)
  IN IF got.raised = "InvalidPageError" THEN Return(Some(<<>>))
     ELSE IF got.raised # "none" THEN Raise(got.raised)
     ELSE Return(Some(got.val))

(* Paginator.get_paginated_items *)
GetPaginatedItems(page_number) ==
  LET got == GetPage(page_number)
  IN IF got.raised = "InvalidPageError" THEN Return(NoneVal)
     ELSE IF got.raised # "none" THEN Raise(got.raised)
     ELSE Return(Some(got.val))

GetPaginatedItemsOp(p) ==
  /\ st = "ok"
  /\ call' = [NoCall EXCEPT !.op = "get_paginated_items", !.page_number = p]
  /\ ret' = GetPaginatedItems(p)
  /\ UNCHANGED <<st, fields>>

(* the key functions handed to paginate as sort_key *)
KeyOf(sort_key, x) ==
  CASE sort_key = "neg" -> -x
    [] sort_key = "parity" -> x % 2
    [] OTHER -> x

(* an insertion that puts x before its equals: the sort is not stable *)
SortInsert_Unstable(sorted, x, sort_key, reverse) ==
  LET Before(e) == IF reverse THEN KeyOf(sort_key, e) > KeyOf(sort_key, x)
                              ELSE KeyOf(sort_key, e) < KeyOf(sort_key, x)
      k == Cardinality({i \in 1..Len(sorted) : Before(sorted[i])})
  IN SubSeq(sorted, 1, k) \o <<x>> \o SubSeq(sorted, k + 1, Len(sorted))

(* list.sort(key=..., reverse=...): stable in both directions; x goes      *)
(* after every element that does not have to follow it                     *)
SortInsert(sorted, x, sort_key, reverse) ==
  LET NotAfter(e) == IF reverse THEN KeyOf(sort_key, e) >= KeyOf(sort_key, x)
                                ELSE KeyOf(sort_key, e) <= KeyOf(sort_key, x)
      k == Cardinality({i \in 1..Len(sorted) : NotAfter(sorted[i])})
  IN SubSeq(sorted, 1, k) \o <<x>> \o SubSeq(sorted, k + 1, Len(sorted))

RECURSIVE ListSort(_, _, _)
ListSort(s, sort_key, reverse) ==
  IF s = <<>> THEN <<>>
  ELSE SortInsert(ListSort(SubSeq(s, 1, Len(s) - 1), sort_key, reverse),
                  s[Len(s)], sort_key, reverse)

(* Paginator.paginate: the sort happens first and stays, whatever follows  *)
Paginate(p, sort_key, reverse) ==
  /\ st = "ok"
  /\ call' = [NoCall EXCEPT !.op = "paginate", !.page_number = p,
                            !.sort_key = sort_key, !.reverse = reverse]
  /\ items' = IF sort_key # "none" THEN ListSort(items, sort_key, reverse)
              ELSE items
  /\ UNCHANGED <<st, items_per_page, orphans, allow_empty_first_page,
                 total_items, total_pages>>
  /\ ret' = LET page_info == GetPageInfo(p)'
                paginated == GetPaginatedItems(p)'
            IN IF page_info.raised # "none" THEN Raise(page_info.raised)
               ELSE IF paginated.raised # "none" THEN Raise(paginated.raised)
               ELSE Return([page_info.val EXCEPT !.items = paginated.val])

Next ==
  \/ \E its \in Collections, ipp \in PerPageValues, orph \in OrphansValues,
        allow \in BOOLEAN : Construct(its, ipp, orph, allow)
  \/ \E p \in PageValues : GetPageOp(p)
  \/ \E p \in PageValues : GetPageInfoOp(p)
  \/ \E p \in PageValues : GetPaginatedItemsOp(p)
  \/ \E p \in PageValues, sort_key \in SortKeys, reverse \in BOOLEAN :
        Paginate(p, sort_key, reverse)

Spec == Init /\ [][Next]_vars

(* page ranges depend on total_pages only: collections [1..n] *)
NextRange ==
  \/ \E its \in RangeCollections : Construct(its, TestPerPage, 0, TRUE)
  \/ \E p \in 0..MaxRangePage, np \in 0..MaxNumPages, le \in 0..MaxEdge,
        re \in 0..MaxEdge : GetPageRangeOp(p, np, le, re)

SpecRange == Init /\ [][NextRange]_vars

(* ======================= properties ======================= *)

(* the pages first..last, both included *)
Pages(first, last) == [i \in 1..(last - first + 1) |-> first + i - 1]

(* the page_number-th page of s, element by element *)
ExpectedPage(s, page_number) ==
  LET start == (page_number - 1) * items_per_page
      n == IF start + items_per_page <= total_items
           THEN items_per_page ELSE total_items - start
  IN [i \in 1..n |-> s[start + i]]

(* get_page rejects page_number *)
PageRejected(page_number) ==
  \/ page_number < 1
  \/ page_number > total_pages /\ ~(page_number = 1 /\ allow_empty_first_page)

(* C1: for a page_number in [1, total_pages], get_page returns the slice    *)
(* from (page_number-1)*items_per_page up to min(start + items_per_page,    *)
(* total_items): exactly items_per_page items on every page but the last,   *)
(* and between 1 and items_per_page items on the last.                      *)
C1_PageSlice ==
  (st = "ok" /\ call.op = "get_page" /\ call.page_number \in 1..total_pages) =>
    LET p == call.page_number
        start == (p - 1) * items_per_page
        end == IF start + items_per_page < total_items
               THEN start + items_per_page ELSE total_items
    IN /\ ret.raised = "none"
       /\ Len(ret.val) = end - start
       /\ \A i \in 1..Len(ret.val) : ret.val[i] = items[start + i]
       /\ p < total_pages => Len(ret.val) = items_per_page
       /\ Len(ret.val) >= 1 /\ Len(ret.val) <= items_per_page

(* the last of several pages was read and is shorter than a full page *)
C1_Witness ==
  /\ st = "ok" /\ call.op = "get_page"
  /\ call.page_number = total_pages /\ total_pages > 1
  /\ ret.raised = "none" /\ Len(ret.val) < items_per_page

(* C2: get_page fails with InvalidPageError for page_number < 1 and for     *)
(* page_number > total_pages, except page_number = 1 with                   *)
(* allow_empty_first_page, which returns the empty sequence; page 1 of an   *)
(* empty collection is empty, and an empty collection with                  *)
(* allow_empty_first_page false has failed its construction with            *)
(* InvalidPageError.                                                        *)
C2_InvalidPage ==
  /\ (st = "ok" /\ call.op = "get_page") =>
       LET p == call.page_number
       IN /\ p < 1 => ret.raised = "InvalidPageError"
          /\ p > total_pages =>
               IF p = 1 /\ allow_empty_first_page
               THEN ret.raised = "none" /\ ret.val = <<>>
               ELSE ret.raised = "InvalidPageError"
          /\ (p = 1 /\ total_items = 0) => (ret.raised = "none" /\ ret.val = <<>>)
  /\ (~allow_empty_first_page /\ total_items = 0) => st = "InvalidPageError"
  /\ st = "InvalidPageError" => (~allow_empty_first_page /\ total_items = 0)

(* page 1 of an empty collection was read *)
C2_Witness ==
  /\ st = "ok" /\ call.op = "get_page" /\ call.page_number = 1
  /\ total_items = 0 /\ allow_empty_first_page
  /\ ret.raised = "none" /\ ret.val = <<>>

(* C3: over 20 items with page size 3 (7 pages) and the default parameters, *)
(* get_page_range returns [1,2,3,'...',20] for page 1,                      *)
(* [1,'...',3,4,5,'...',20] for page 4 and [1,'...',6,7,8,9,10] for page 7. *)
C3_TestRanges ==
  (/\ st = "ok" /\ total_items = 20 /\ items_per_page = 3
   /\ call.op = "get_page_range" /\ call.num_pages = DefaultNumPages
   /\ call.left_edge = DefaultEdge /\ call.right_edge = DefaultEdge) =>
    /\ total_pages = 7
    /\ call.page_number = 1 => ret = Return(<<1, 2, 3, Ellipsis, 20>>)
    /\ call.page_number = 4 => ret = Return(<<1, Ellipsis, 3, 4, 5, Ellipsis, 20>>)
    /\ call.page_number = 7 => ret = Return(<<1, Ellipsis, 6, 7, 8, 9, 10>>)

(* C4: over 10 items with page size 3 (4 pages, not more than num_pages)    *)
(* and the default parameters, get_page_range has no ellipsis: [1,2,3,4]    *)
(* for page 1 and [2,3,4] for page 4.                                       *)
C4_NoEllipsis ==
  (/\ st = "ok" /\ total_items = 10 /\ items_per_page = 3
   /\ call.op = "get_page_range" /\ call.num_pages = DefaultNumPages
   /\ call.left_edge = DefaultEdge /\ call.right_edge = DefaultEdge) =>
    /\ total_pages = 4
    /\ call.page_number = 1 => ret = Return(<<1, 2, 3, 4>>)
    /\ call.page_number = 4 => ret = Return(<<2, 3, 4>>)

OrderedBy(s, sort_key, reverse) ==
  \A i \in 1..Len(s) : \A j \in 1..Len(s) :
    i < j => IF reverse THEN KeyOf(sort_key, s[i]) >= KeyOf(sort_key, s[j])
                        ELSE KeyOf(sort_key, s[i]) <= KeyOf(sort_key, s[j])

(* the elements of s whose key is k, in their order in s *)
WithKey(s, sort_key, k) ==
  LET Has(x) == KeyOf(sort_key, x) = k IN SelectSeq(s, Has)

(* t holds the elements of s, those of equal key in their order in s *)
StableRearrangement(s, t, sort_key) ==
  /\ Len(t) = Len(s)
  /\ \A i \in 1..Len(s) :
       WithKey(t, sort_key, KeyOf(sort_key, s[i])) =
       WithKey(s, sort_key, KeyOf(sort_key, s[i]))

(* what a call that reads page p of s successfully finds there *)
PageRead(s, p) == IF p > total_pages THEN <<>> ELSE ExpectedPage(s, p)

(* C6: paginate with a sort_key sorts the backing collection in place       *)
(* (stable, by sort_key, descending when reverse) before reading the page;  *)
(* the returned items are the page_number-th slice of the sorted            *)
(* collection ([7,6,5] for page 2 of [1..10] by negation with page size 3); *)
(* get_page, get_page_info and paginate without sort_key leave the order as *)
(* it is and read it; total_items and total_pages never change.             *)
C6_SortStep ==
  LET p == call'.page_number
  IN /\ st = "ok" => (total_items' = total_items /\ total_pages' = total_pages)
     /\ (call'.op = "paginate" /\ call'.sort_key # "none") =>
          /\ OrderedBy(items', call'.sort_key, call'.reverse)
          /\ StableRearrangement(items, items', call'.sort_key)
          /\ ret'.raised = "none" =>
               (~ret'.val.items.none /\ ret'.val.items.val = PageRead(items', p))
          /\ (/\ items = Pages(1, 10) /\ items_per_page = 3 /\ orphans = 0
              /\ p = 2 /\ call'.sort_key = "neg" /\ ~call'.reverse) =>
               (ret'.raised = "none" /\ ret'.val.items.val = <<7, 6, 5>>)
     /\ (call'.op = "paginate" /\ call'.sort_key = "none") =>
          /\ items' = items
          /\ ret'.raised = "none" => ret'.val.items.val = PageRead(items', p)
     /\ call'.op = "get_page" =>
          /\ items' = items
          /\ ret'.raised = "none" => ret'.val = PageRead(items', p)
     /\ call'.op = "get_page_info" =>
          /\ items' = items
          /\ ret'.raised = "none" => ret'.val.items = PageRead(items', p)

C6_SortPermanent == [][C6_SortStep]_vars

(* paginate reordered the collection by a key with ties and returned a page *)
(* of the new order that the old order did not have there                   *)
C6_Witness ==
  /\ st = "ok" /\ call.op = "paginate" /\ call.sort_key = "parity"
  /\ ret.raised = "none"
  /\ \E i \in 1..Len(items) : \E j \in 1..Len(items) :
       i < j /\ items[i] # items[j] /\ items[i] % 2 = items[j] % 2
  /\ \E i \in 1..Len(items) : \E j \in 1..Len(items) :
       i < j /\ items[i] % 2 # items[j] % 2
  /\ ret.val.items.val # <<>>

(* C7: get_paginated_items never raises: it returns what get_page returns   *)
(* when get_page succeeds (the empty sequence for page 1 of an empty        *)
(* collection with allow_empty_first_page), None exactly when get_page      *)
(* fails with InvalidPageError, and leaves the Paginator as it was.         *)
C7_SwallowStep ==
  call'.op = "get_paginated_items" =>
    LET p == call'.page_number
    IN /\ UNCHANGED <<st, fields>>
       /\ ret'.raised = "none"
       /\ ret'.val.none <=> PageRejected(p)
       /\ ret'.val.none <=> GetPage(p).raised = "InvalidPageError"
       /\ ~ret'.val.none => (ret'.val.val = PageRead(items, p) /\ ret'.val.val = GetPage(p).val)
       /\ (p = 1 /\ total_items = 0) => ret'.val = Some(<<>>)

C7_Swallow == [][C7_SwallowStep]_vars

(* get_paginated_items answered None for a page past the last one *)
C7_Witness ==
  /\ st = "ok" /\ call.op = "get_paginated_items"
  /\ call.page_number > total_pages /\ total_pages >= 1
  /\ ret.raised = "none" /\ ret.val.none

RECURSIVE ConcatPages(_)
ConcatPages(n) == IF n <= 0 THEN <<>> ELSE ConcatPages(n - 1) \o GetPage(n).val

(* C8: whatever orphans >= 0, the pages partition the collection:           *)
(* get_page(1) ++ ... ++ get_page(total_pages) is the backing collection.   *)
C8_PagesPartition ==
  st = "ok" => ConcatPages(total_pages) = items

(* the page numbers of a page range, the ellipsis markers left out *)
PageNumbers(range) == LET IsPage(m) == m # Ellipsis IN SelectSeq(range, IsPage)

(* C9: for a valid page_number and non-negative num_pages, left_edge and    *)
(* right_edge, the page numbers of get_page_range's result are strictly     *)
(* increasing and lie in [1, total_pages].                                  *)
C9_RangeIncreasing ==
  (st = "ok" /\ call.op = "get_page_range" /\ ret.raised = "none") =>
    LET nums == PageNumbers(ret.val)
    IN /\ \A i \in 1..Len(nums) : nums[i] >= 1 /\ nums[i] <= total_pages
       /\ \A i \in 1..(Len(nums) - 1) : nums[i] < nums[i + 1]

(* C10: a paginate that fails with InvalidPageError leaves the backing      *)
(* collection in the order it had before the call.                          *)
C10_FailedStep ==
  (call'.op = "paginate" /\ ret'.raised = "InvalidPageError") => items' = items

C10_FailedPaginateAtomic == [][C10_FailedStep]_vars
====
